---- MODULE Spec2Model ----
(***************************************************************************)
(* Admin Setor API (src/app.py): six relational tables behind CRUD HTTP    *)
(* handlers, and the settlement step of create_payment.  Each handler is   *)
(* run by a worker; every SQL statement / commit of a handler is one       *)
(* atomic step against the committed tables (PostgreSQL, READ COMMITTED),  *)
(* so handlers of different workers interleave between their statements.   *)
(***************************************************************************)
EXTENDS Integers, Sequences, FiniteSets, TLC

\* ------------------------------------------------------------- bounds
\* requests served in one behaviour
MaxOps == 2
\* concurrent request workers
NumWorkers == 2
\* ids a table's SERIAL sequence can issue
MaxId == 3

\* Optional[int] = None (po_id)
NULL == 0

\* Query(50, ge=1, le=200)
MaxLimit == 200

Procs == 1..NumWorkers
\* ids a payload may carry: existing rows and rows that do not exist
RefIds == 1..MaxId

\* payload values
DeptNames == {"Financeiro", "Compras"}
CostCenters == {"CC-100", "CC-300"}
Emails == {"ana", "carla"}
SupplierNames == {"Papelaria", "Nova"}
TaxIds == {"12", "77"}
InvoiceNos == {"NF-0001"}
POStatuses == {"APPROVED"}
InvoiceStatuses == {"OPEN", "PAID", "CANCELLED", "OVERDUE"}
InvoiceAmounts == {0, 2}
IssueDates == {"2025-01-10"}
DueDates == {"2025-02-10"}
PaymentAmounts == {1, 3}

\* query parameters of the list handlers: limit and offset, in and out of range
Limits == {0, 1, 2, MaxLimit, MaxLimit + 1}
Offsets == {-1, 0, 1}
\* an optional query parameter: <<>> when the request leaves it out (None),
\* <<v>> when it carries the value v
Optional(values) == {<<>>} \cup {<<v>> : v \in values}
\* ?status= carries the empty string
StatusFilters == Optional({"", "OPEN", "APPROVED", "PAID"})

VARIABLES
    departments,      \* committed rows of table departments
    employees,        \* committed rows of table employees
    suppliers,        \* committed rows of table suppliers
    purchase_orders,  \* committed rows of table purchase_orders
    invoices,         \* committed rows of table invoices
    payments,         \* committed rows of table payments
    seq,              \* last id issued by each table's sequence
    pc,               \* pc[w]: the statement worker w's handler is at
    req,              \* req[w]: the payload of the request w is serving
    sess,             \* sess[w]: what w's Session holds (loaded inv, total_paid, obj)
    resp,             \* the response the last step sent (NoResp: it sent none)
    ops               \* requests accepted so far

tables == <<departments, employees, suppliers, purchase_orders, invoices, payments>>
vars == <<departments, employees, suppliers, purchase_orders, invoices, payments,
          seq, pc, req, sess, resp, ops>>

TableNames == {"departments", "employees", "suppliers", "purchase_orders",
               "invoices", "payments"}

\* ------------------------------------------------------------ helpers
Row(table, id) == CHOOSE r \in table : r.id = id
Exists(table, id) == \E r \in table : r.id = id

RECURSIVE SumAmounts(_)
SumAmounts(rows) ==
    IF rows = {} THEN 0
    ELSE LET r == CHOOSE x \in rows : TRUE
         IN r.amount_cents + SumAmounts(rows \ {r})

\* SELECT coalesce(sum(amount_cents), 0) FROM payments WHERE invoice_id = :id
TotalPaid(id) == SumAmounts({p \in payments : p.invoice_id = id})

NoReq == [op |-> "none"]
NoSess == [inv_status |-> "none", inv_amount |-> 0, total_paid |-> 0, obj |-> 0]
NoResp == [op |-> "none", code |-> 0, kind |-> "none", detail |-> ""]

\* kind: the error kind of the response; detail: the field a 400 names invalid
Response(op, code, kind, detail) ==
    [op |-> op, code |-> code, kind |-> kind, detail |-> detail]

\* HTTPException(400, "<fk> inválido.")
ReferenceError(op, field) == Response(op, 400, "reference", field)
\* HTTPException(400, "... já existe ou dados inválidos.")
ConflictError(op) == Response(op, 400, "conflict", "")
\* HTTPException(404, "... não encontrado.")
NotFound(op) == Response(op, 404, "not_found", "")
\* an exception no handler catches: 500 Internal Server Error
ServerError(op) == Response(op, 500, "server_error", "")
Created(op) == Response(op, 201, "ok", "")
NoContent(op) == Response(op, 204, "ok", "")

\* ---------------------------------------------------------------- Init
\* Base.metadata.create_all on an empty database
EmptyDb ==
    /\ departments = {}
    /\ employees = {}
    /\ suppliers = {}
    /\ purchase_orders = {}
    /\ invoices = {}
    /\ payments = {}
    /\ seq = [t \in TableNames |-> 0]

\* the database after seed_table.py, scaled down: two departments, employees,
\* suppliers, purchase orders and invoices (one OPEN, one PAID) and the one
\* payment that settles the PAID invoice.  As in the seed, some employee has
\* requested no purchase order.
SeededDb ==
    /\ departments = {[id |-> 1, name |-> "Financeiro", cost_center |-> "CC-100"],
                      [id |-> 2, name |-> "RH", cost_center |-> "CC-200"]}
    /\ employees = {[id |-> 1, department_id |-> 1, email |-> "ana", active |-> TRUE],
                    [id |-> 2, department_id |-> 2, email |-> "bruno", active |-> TRUE]}
    /\ suppliers = {[id |-> 1, name |-> "Papelaria", tax_id |-> "12"],
                    [id |-> 2, name |-> "TechOffice", tax_id |-> "98"]}
    /\ purchase_orders =
         {[id |-> 1, supplier_id |-> 1, requested_by |-> 1, department_id |-> 1,
           status |-> "APPROVED"],
          [id |-> 2, supplier_id |-> 2, requested_by |-> 1, department_id |-> 2,
           status |-> "SENT"]}
    /\ invoices =
         {[id |-> 1, supplier_id |-> 1, po_id |-> 1, invoice_no |-> "NF-0001",
           issued_on |-> "2025-01-10", due_on |-> "2025-02-10",
           amount_cents |-> 2, status |-> "OPEN",
           created_status |-> "OPEN", pay_deleted |-> FALSE, settle_failed |-> FALSE],
          [id |-> 2, supplier_id |-> 2, po_id |-> 2, invoice_no |-> "NF-0100",
           issued_on |-> "2025-01-05", due_on |-> "2025-02-05",
           amount_cents |-> 3, status |-> "PAID",
           created_status |-> "PAID", pay_deleted |-> FALSE, settle_failed |-> FALSE]}
    /\ payments = {[id |-> 1, invoice_id |-> 2, amount_cents |-> 3]}
    /\ seq = [t \in TableNames |-> IF t = "payments" THEN 1 ELSE 2]

Init ==
    /\ EmptyDb \/ SeededDb
    /\ pc = [w \in Procs |-> "idle"]
    /\ req = [w \in Procs |-> NoReq]
    /\ sess = [w \in Procs |-> NoSess]
    /\ resp = NoResp
    /\ ops = 0

\* ------------------------------------------------------ handler frame
\* A handler reads its payload where its statements use it: a field that no
\* statement reads before the INSERT is drawn at the INSERT, which leaves the
\* reachable tables and responses the same as drawing it on entry.
\* a request is handed to a free worker of the pool: the first one, the workers
\* being interchangeable (FastAPI dispatches the handler)
Accept(w) ==
    /\ pc[w] = "idle"
    /\ \A v \in Procs : v < w => pc[v] # "idle"
    /\ ops < MaxOps
    /\ ops' = ops + 1

\* the handler returns or raises: the Session is closed, the response sent
Return(w, r) ==
    /\ pc' = [pc EXCEPT ![w] = "idle"]
    /\ req' = [req EXCEPT ![w] = NoReq]
    /\ sess' = [sess EXCEPT ![w] = NoSess]
    /\ resp' = r

\* the handler goes on to its next statement
Goto(w, label, payload) ==
    /\ pc' = [pc EXCEPT ![w] = label]
    /\ req' = [req EXCEPT ![w] = payload]
    /\ resp' = NoResp

NextVal(t) == seq[t] + 1
Bump(t) == seq' = [seq EXCEPT ![t] = NextVal(t)]

\* ------------------------------------------- constraints of the store
\* departments.name UNIQUE, departments.cost_center UNIQUE
DepartmentUnique(name, cost_center) ==
    \A d \in departments : d.name # name /\ d.cost_center # cost_center

\* mutant of EmployeeUnique: the column is not declared unique
EmployeeUnique_NotDeclared(email) == TRUE

\* employees.email UNIQUE
EmployeeUnique(email) == \A e \in employees : e.email # email

\* suppliers.name UNIQUE, suppliers.tax_id UNIQUE
SupplierUnique(name, tax_id) ==
    \A s \in suppliers : s.name # name /\ s.tax_id # tax_id

\* UniqueConstraint("supplier_id", "invoice_no")
InvoiceUnique(supplier_id, invoice_no) ==
    \A i \in invoices : ~(i.supplier_id = supplier_id /\ i.invoice_no = invoice_no)

\* rows that hold a RESTRICT foreign key to a department / employee / supplier
DepartmentInUse(id) ==
    \/ \E e \in employees : e.department_id = id
    \/ \E po \in purchase_orders : po.department_id = id

EmployeeInUse(id) == \E po \in purchase_orders : po.requested_by = id

SupplierInUse(id) ==
    \/ \E po \in purchase_orders : po.supplier_id = id
    \/ \E i \in invoices : i.supplier_id = id

\* --------------------------------------------------------- Departments
create_department(w) ==
    \E name \in DeptNames, cost_center \in CostCenters :
        /\ Accept(w)
        /\ IF DepartmentUnique(name, cost_center)
           THEN /\ NextVal("departments") <= MaxId
                /\ departments' = departments \cup
                      {[id |-> NextVal("departments"), name |-> name,
                        cost_center |-> cost_center]}
                /\ Bump("departments")
                /\ Return(w, Created("create_department"))
           ELSE /\ UNCHANGED <<departments, seq>>
                /\ Return(w, ConflictError("create_department"))
        /\ UNCHANGED <<employees, suppliers, purchase_orders, invoices, payments>>

\* db.get(Department, dept_id)
delete_department_get(w) ==
    \E dept_id \in RefIds :
        /\ Accept(w)
        /\ IF Exists(departments, dept_id)
           THEN Goto(w, "delete_department", [op |-> "delete_department", id |-> dept_id])
                /\ UNCHANGED sess
           ELSE Return(w, NotFound("delete_department"))
        /\ UNCHANGED <<tables, seq>>

\* db.delete(obj); db.commit(): the flush fails on a referenced department
\* (IntegrityError, not caught); a row already gone only warns
delete_department_commit(w) ==
    /\ pc[w] = "delete_department"
    /\ IF DepartmentInUse(req[w].id)
       THEN /\ UNCHANGED departments
            /\ Return(w, ServerError("delete_department"))
       ELSE /\ departments' = {d \in departments : d.id # req[w].id}
            /\ Return(w, NoContent("delete_department"))
    /\ UNCHANGED <<employees, suppliers, purchase_orders, invoices, payments, seq, ops>>

\* ----------------------------------------------------------- Employees
\* db.get(Department, payload.department_id)
create_employee_check(w) ==
    \E department_id \in RefIds :
        /\ Accept(w)
        /\ IF Exists(departments, department_id)
           THEN Goto(w, "create_employee",
                     [op |-> "create_employee", department_id |-> department_id])
                /\ UNCHANGED sess
           ELSE Return(w, ReferenceError("create_employee", "department_id"))
        /\ UNCHANGED <<tables, seq>>

\* db.add(obj); db.commit() inside try/except: any failure is the 400 of line 321
create_employee_commit(w) ==
    /\ pc[w] = "create_employee"
    /\ \E email \in Emails, active \in BOOLEAN :
          IF Exists(departments, req[w].department_id) /\ EmployeeUnique(email)
          THEN /\ NextVal("employees") <= MaxId
               /\ employees' = employees \cup
                     {[id |-> NextVal("employees"),
                       department_id |-> req[w].department_id, email |-> email,
                       active |-> active]}
               /\ Bump("employees")
               /\ Return(w, Created("create_employee"))
          ELSE /\ UNCHANGED <<employees, seq>>
               /\ Return(w, ConflictError("create_employee"))
    /\ UNCHANGED <<departments, suppliers, purchase_orders, invoices, payments, ops>>

delete_employee_get(w) ==
    \E emp_id \in RefIds :
        /\ Accept(w)
        /\ IF Exists(employees, emp_id)
           THEN Goto(w, "delete_employee", [op |-> "delete_employee", id |-> emp_id])
                /\ UNCHANGED sess
           ELSE Return(w, NotFound("delete_employee"))
        /\ UNCHANGED <<tables, seq>>

delete_employee_commit(w) ==
    /\ pc[w] = "delete_employee"
    /\ IF EmployeeInUse(req[w].id)
       THEN /\ UNCHANGED employees
            /\ Return(w, ServerError("delete_employee"))
       ELSE /\ employees' = {e \in employees : e.id # req[w].id}
            /\ Return(w, NoContent("delete_employee"))
    /\ UNCHANGED <<departments, suppliers, purchase_orders, invoices, payments, seq, ops>>

\* ----------------------------------------------------------- Suppliers
create_supplier(w) ==
    \E name \in SupplierNames, tax_id \in TaxIds :
        /\ Accept(w)
        /\ IF SupplierUnique(name, tax_id)
           THEN /\ NextVal("suppliers") <= MaxId
                /\ suppliers' = suppliers \cup
                      {[id |-> NextVal("suppliers"), name |-> name, tax_id |-> tax_id]}
                /\ Bump("suppliers")
                /\ Return(w, Created("create_supplier"))
           ELSE /\ UNCHANGED <<suppliers, seq>>
                /\ Return(w, ConflictError("create_supplier"))
        /\ UNCHANGED <<departments, employees, purchase_orders, invoices, payments>>

delete_supplier_get(w) ==
    \E supplier_id \in RefIds :
        /\ Accept(w)
        /\ IF Exists(suppliers, supplier_id)
           THEN Goto(w, "delete_supplier", [op |-> "delete_supplier", id |-> supplier_id])
                /\ UNCHANGED sess
           ELSE Return(w, NotFound("delete_supplier"))
        /\ UNCHANGED <<tables, seq>>

delete_supplier_commit(w) ==
    /\ pc[w] = "delete_supplier"
    /\ IF SupplierInUse(req[w].id)
       THEN /\ UNCHANGED suppliers
            /\ Return(w, ServerError("delete_supplier"))
       ELSE /\ suppliers' = {s \in suppliers : s.id # req[w].id}
            /\ Return(w, NoContent("delete_supplier"))
    /\ UNCHANGED <<departments, employees, purchase_orders, invoices, payments, seq, ops>>

\* ----------------------------------------------------- Purchase Orders
\* db.get(Supplier, payload.supplier_id)
create_po_supplier(w) ==
    \E supplier_id \in RefIds :
        /\ Accept(w)
        /\ IF Exists(suppliers, supplier_id)
           THEN Goto(w, "create_po_requested_by",
                     [op |-> "create_po", supplier_id |-> supplier_id,
                      requested_by |-> NULL, department_id |-> NULL])
                /\ UNCHANGED sess
           ELSE Return(w, ReferenceError("create_po", "supplier_id"))
        /\ UNCHANGED <<tables, seq>>

\* mutant of create_po_requested_by: the existence check is missing
create_po_requested_by_Unchecked(w) ==
    /\ pc[w] = "create_po_requested_by"
    /\ \E requested_by \in RefIds :
          /\ Goto(w, "create_po_department",
                  [req[w] EXCEPT !.requested_by = requested_by])
          /\ UNCHANGED sess
    /\ UNCHANGED <<tables, seq, ops>>

\* db.get(Employee, payload.requested_by)
create_po_requested_by(w) ==
    /\ pc[w] = "create_po_requested_by"
    /\ \E requested_by \in RefIds :
          IF Exists(employees, requested_by)
          THEN Goto(w, "create_po_department",
                    [req[w] EXCEPT !.requested_by = requested_by])
               /\ UNCHANGED sess
          ELSE Return(w, ReferenceError("create_po", "requested_by"))
    /\ UNCHANGED <<tables, seq, ops>>

\* db.get(Department, payload.department_id)
create_po_department(w) ==
    /\ pc[w] = "create_po_department"
    /\ \E department_id \in RefIds :
          IF Exists(departments, department_id)
          THEN Goto(w, "create_po", [req[w] EXCEPT !.department_id = department_id])
               /\ UNCHANGED sess
          ELSE Return(w, ReferenceError("create_po", "department_id"))
    /\ UNCHANGED <<tables, seq, ops>>

\* the three foreign keys of purchase_orders, enforced by the store at INSERT
POForeignKeysHold(r) ==
    /\ Exists(suppliers, r.supplier_id)
    /\ Exists(employees, r.requested_by)
    /\ Exists(departments, r.department_id)

\* db.add(obj); db.commit(), not in a try: a violated foreign key is a 500
create_po_commit(w) ==
    /\ pc[w] = "create_po"
    /\ \E status \in POStatuses :
          IF POForeignKeysHold(req[w])
          THEN /\ NextVal("purchase_orders") <= MaxId
               /\ purchase_orders' = purchase_orders \cup
                     {[id |-> NextVal("purchase_orders"),
                       supplier_id |-> req[w].supplier_id,
                       requested_by |-> req[w].requested_by,
                       department_id |-> req[w].department_id,
                       status |-> status]}
               /\ Bump("purchase_orders")
               /\ Return(w, Created("create_po"))
          ELSE /\ UNCHANGED <<purchase_orders, seq>>
               /\ Return(w, ServerError("create_po"))
    /\ UNCHANGED <<departments, employees, suppliers, invoices, payments, ops>>

delete_po_get(w) ==
    \E po_id \in RefIds :
        /\ Accept(w)
        /\ IF Exists(purchase_orders, po_id)
           THEN Goto(w, "delete_po", [op |-> "delete_po", id |-> po_id])
                /\ UNCHANGED sess
           ELSE Return(w, NotFound("delete_po"))
        /\ UNCHANGED <<tables, seq>>

\* invoices.po_id ... ON DELETE SET NULL
DetachPO(i, po_id) == IF i.po_id = po_id THEN [i EXCEPT !.po_id = NULL] ELSE i

\* mutant of delete_po_commit: the foreign key is declared ON DELETE CASCADE
delete_po_commit_Cascade(w) ==
    /\ pc[w] = "delete_po"
    /\ purchase_orders' = {po \in purchase_orders : po.id # req[w].id}
    /\ invoices' = {i \in invoices : i.po_id # req[w].id}
    /\ payments' = {p \in payments :
                        \E i \in invoices : i.id = p.invoice_id /\ i.po_id # req[w].id}
    /\ Return(w, NoContent("delete_po"))
    /\ UNCHANGED <<departments, employees, suppliers, seq, ops>>

\* db.delete(obj); db.commit(): no row holds a RESTRICT key to a purchase order
delete_po_commit(w) ==
    /\ pc[w] = "delete_po"
    /\ purchase_orders' = {po \in purchase_orders : po.id # req[w].id}
    /\ invoices' = {DetachPO(i, req[w].id) : i \in invoices}
    /\ Return(w, NoContent("delete_po"))
    /\ UNCHANGED <<departments, employees, suppliers, payments, seq, ops>>

\* ------------------------------------------------------------ Invoices
\* db.get(Supplier, payload.supplier_id)
create_invoice_supplier(w) ==
    \E supplier_id \in RefIds, po_id \in RefIds \cup {NULL} :
        /\ Accept(w)
        /\ IF Exists(suppliers, supplier_id)
           THEN Goto(w, IF po_id # NULL THEN "create_invoice_po" ELSE "create_invoice",
                     [op |-> "create_invoice", supplier_id |-> supplier_id,
                      po_id |-> po_id])
                /\ UNCHANGED sess
           ELSE Return(w, ReferenceError("create_invoice", "supplier_id"))
        /\ UNCHANGED <<tables, seq>>

\* payload.po_id is not None and not db.get(PurchaseOrder, payload.po_id)
create_invoice_po(w) ==
    /\ pc[w] = "create_invoice_po"
    /\ IF Exists(purchase_orders, req[w].po_id)
       THEN Goto(w, "create_invoice", req[w]) /\ UNCHANGED sess
       ELSE Return(w, ReferenceError("create_invoice", "po_id"))
    /\ UNCHANGED <<tables, seq, ops>>

\* the foreign keys of invoices, enforced by the store at INSERT
InvoiceForeignKeysHold(r) ==
    /\ Exists(suppliers, r.supplier_id)
    /\ r.po_id = NULL \/ Exists(purchase_orders, r.po_id)

\* db.add(obj); db.commit() inside try/except: any failure is the 400 of line 469
create_invoice_commit(w) ==
    /\ pc[w] = "create_invoice"
    /\ \E invoice_no \in InvoiceNos, amount_cents \in InvoiceAmounts,
          status \in InvoiceStatuses, issued_on \in IssueDates,
          due_on \in DueDates :
          IF InvoiceForeignKeysHold(req[w])
             /\ InvoiceUnique(req[w].supplier_id, invoice_no)
          THEN /\ NextVal("invoices") <= MaxId
               /\ invoices' = invoices \cup
                     {[id |-> NextVal("invoices"), supplier_id |-> req[w].supplier_id,
                       po_id |-> req[w].po_id, invoice_no |-> invoice_no,
                       issued_on |-> issued_on, due_on |-> due_on,
                       amount_cents |-> amount_cents, status |-> status,
                       created_status |-> status, pay_deleted |-> FALSE,
                       settle_failed |-> FALSE]}
               /\ Bump("invoices")
               /\ Return(w, Created("create_invoice"))
          ELSE /\ UNCHANGED <<invoices, seq>>
               /\ Return(w, ConflictError("create_invoice"))
    /\ UNCHANGED <<departments, employees, suppliers, purchase_orders, payments, ops>>

delete_invoice_get(w) ==
    \E invoice_id \in RefIds :
        /\ Accept(w)
        /\ IF Exists(invoices, invoice_id)
           THEN Goto(w, "delete_invoice", [op |-> "delete_invoice", id |-> invoice_id])
                /\ UNCHANGED sess
           ELSE Return(w, NotFound("delete_invoice"))
        /\ UNCHANGED <<tables, seq>>

\* mutant of delete_invoice_commit: the payments of the invoice are left behind
delete_invoice_commit_Orphans(w) ==
    /\ pc[w] = "delete_invoice"
    /\ invoices' = {i \in invoices : i.id # req[w].id}
    /\ Return(w, NoContent("delete_invoice"))
    /\ UNCHANGED <<departments, employees, suppliers, purchase_orders, payments, seq, ops>>

\* db.delete(obj); db.commit(); payments.invoice_id ... ON DELETE CASCADE
delete_invoice_commit(w) ==
    /\ pc[w] = "delete_invoice"
    /\ invoices' = {i \in invoices : i.id # req[w].id}
    /\ payments' = {p \in payments : p.invoice_id # req[w].id}
    /\ Return(w, NoContent("delete_invoice"))
    /\ UNCHANGED <<departments, employees, suppliers, purchase_orders, seq, ops>>

\* ------------------------------------------------------------ Payments
\* inv = db.get(Invoice, payload.invoice_id)
create_payment_get(w) ==
    \E invoice_id \in RefIds :
        /\ Accept(w)
        /\ IF Exists(invoices, invoice_id)
           THEN Goto(w, "create_payment",
                     [op |-> "create_payment", invoice_id |-> invoice_id])
                /\ UNCHANGED sess
           ELSE Return(w, ReferenceError("create_payment", "invoice_id"))
        /\ UNCHANGED <<tables, seq>>

\* mutant of create_payment_commit: the status is written in the transaction of
\* the insert
create_payment_commit_AndSettle(w) ==
    /\ pc[w] = "create_payment"
    /\ \E amount_cents \in PaymentAmounts :
          /\ Exists(invoices, req[w].invoice_id)
          /\ NextVal("payments") <= MaxId
          /\ payments' = payments \cup
                {[id |-> NextVal("payments"), invoice_id |-> req[w].invoice_id,
                  amount_cents |-> amount_cents]}
          /\ invoices' =
                {IF /\ i.id = req[w].invoice_id
                    /\ TotalPaid(i.id) + amount_cents >= i.amount_cents
                    /\ i.status # "PAID"
                 THEN [i EXCEPT !.status = "PAID"] ELSE i : i \in invoices}
          /\ Bump("payments")
          /\ Return(w, Created("create_payment"))
    /\ UNCHANGED <<departments, employees, suppliers, purchase_orders, ops>>

\* obj = Payment(...); db.add(obj); db.commit(): the payment is durable here.
\* The store rejects it when the invoice is gone (IntegrityError, not caught).
create_payment_commit(w) ==
    /\ pc[w] = "create_payment"
    /\ \E amount_cents \in PaymentAmounts :
          IF Exists(invoices, req[w].invoice_id)
          THEN /\ NextVal("payments") <= MaxId
               /\ payments' = payments \cup
                     {[id |-> NextVal("payments"), invoice_id |-> req[w].invoice_id,
                       amount_cents |-> amount_cents]}
               /\ Bump("payments")
               /\ pc' = [pc EXCEPT ![w] = "create_payment_refresh"]
               /\ sess' = [sess EXCEPT ![w].obj = NextVal("payments")]
               /\ UNCHANGED req /\ resp' = NoResp
          ELSE /\ UNCHANGED <<payments, seq>>
               /\ Return(w, ServerError("create_payment"))
    /\ UNCHANGED <<departments, employees, suppliers, purchase_orders, invoices, ops>>

\* db.refresh(obj): a new transaction; fails when the row is gone
create_payment_refresh(w) ==
    /\ pc[w] = "create_payment_refresh"
    /\ IF Exists(payments, sess[w].obj)
       THEN /\ pc' = [pc EXCEPT ![w] = "create_payment_load"]
            /\ UNCHANGED <<req, sess>> /\ resp' = NoResp
       ELSE Return(w, ServerError("create_payment"))
    /\ UNCHANGED <<tables, seq, ops>>

\* inv.id: inv was expired by the commit, so the access reloads the row
\* (ObjectDeletedError when it is gone)
create_payment_load(w) ==
    /\ pc[w] = "create_payment_load"
    /\ IF Exists(invoices, req[w].invoice_id)
       THEN /\ pc' = [pc EXCEPT ![w] = "create_payment_sum"]
            /\ sess' = [sess EXCEPT
                  ![w].inv_status = Row(invoices, req[w].invoice_id).status,
                  ![w].inv_amount = Row(invoices, req[w].invoice_id).amount_cents]
            /\ UNCHANGED req /\ resp' = NoResp
       ELSE Return(w, ServerError("create_payment"))
    /\ UNCHANGED <<tables, seq, ops>>

\* mutant of create_payment_sum: the payments of calls still in flight are not
\* visible to the sum (insert and sum in one transaction, no lock on the invoice)
create_payment_sum_Unlocked(w) ==
    /\ pc[w] = "create_payment_sum"
    /\ pc' = [pc EXCEPT ![w] = "create_payment_settle"]
    /\ sess' = [sess EXCEPT ![w].total_paid =
          SumAmounts({p \in payments :
              /\ p.invoice_id = req[w].invoice_id
              /\ ~\E v \in Procs \ {w} :
                    /\ pc[v] \in {"create_payment_refresh", "create_payment_load",
                                  "create_payment_sum", "create_payment_settle"}
                    /\ sess[v].obj = p.id})]
    /\ resp' = NoResp
    /\ UNCHANGED <<tables, seq, req, ops>>

\* mutant of create_payment_sum: an in-memory running total, the new payment only
create_payment_sum_Running(w) ==
    /\ pc[w] = "create_payment_sum"
    /\ pc' = [pc EXCEPT ![w] = "create_payment_settle"]
    /\ sess' = [sess EXCEPT ![w].total_paid =
          SumAmounts({p \in payments : p.id = sess[w].obj})]
    /\ resp' = NoResp
    /\ UNCHANGED <<tables, seq, req, ops>>

\* total_paid = db.query(coalesce(sum(Payment.amount_cents), 0)).filter(...).scalar()
create_payment_sum(w) ==
    /\ pc[w] = "create_payment_sum"
    /\ pc' = [pc EXCEPT ![w] = "create_payment_settle"]
    /\ sess' = [sess EXCEPT ![w].total_paid = TotalPaid(req[w].invoice_id)]
    /\ resp' = NoResp
    /\ UNCHANGED <<tables, seq, req, ops>>

\* mutants of SettleCondition: the sum is not compared; the sum must exceed
SettleCondition_IgnoresSum(total_paid, amount_cents, status) == status # "PAID"

SettleCondition_Strict(total_paid, amount_cents, status) ==
    total_paid > amount_cents /\ status # "PAID"

\* mutant of SettleCondition: the sum is compared with ==
SettleCondition_ExactOnly(total_paid, amount_cents, status) ==
    total_paid = amount_cents /\ status # "PAID"

\* if total_paid >= inv.amount_cents and inv.status != "PAID"
SettleCondition(total_paid, amount_cents, status) ==
    total_paid >= amount_cents /\ status # "PAID"

\* mutant of MarkPaid: the UPDATE has no WHERE clause
MarkPaid_EveryRow(i, id) == [i EXCEPT !.status = "PAID"]

\* mutant of MarkPaid: the UPDATE also writes the amount left to pay
MarkPaid_AndBalance(i, id) ==
    IF i.id = id THEN [i EXCEPT !.status = "PAID", !.amount_cents = 0] ELSE i

\* UPDATE invoices SET status = 'PAID' WHERE id = :id
MarkPaid(i, id) == IF i.id = id THEN [i EXCEPT !.status = "PAID"] ELSE i

\* mutant of create_payment_settle: the status is recomputed either way, so a
\* sum below the amount writes OPEN
create_payment_settle_Recompute(w) ==
    /\ pc[w] = "create_payment_settle"
    /\ invoices' =
          {IF i.id = req[w].invoice_id
           THEN [i EXCEPT !.status =
                    IF sess[w].total_paid >= sess[w].inv_amount THEN "PAID" ELSE "OPEN"]
           ELSE i : i \in invoices}
    /\ Return(w, Created("create_payment"))
    /\ UNCHANGED <<departments, employees, suppliers, purchase_orders, payments, seq, ops>>

\* inv.status = "PAID"; db.commit(); return obj.  The UPDATE of a row that is
\* gone matches no row (StaleDataError, not caught).
create_payment_settle(w) ==
    /\ pc[w] = "create_payment_settle"
    /\ IF SettleCondition(sess[w].total_paid, sess[w].inv_amount, sess[w].inv_status)
       THEN IF Exists(invoices, req[w].invoice_id)
            THEN /\ invoices' = {MarkPaid(i, req[w].invoice_id) : i \in invoices}
                 /\ Return(w, Created("create_payment"))
            ELSE /\ UNCHANGED invoices
                 /\ Return(w, ServerError("create_payment"))
       ELSE /\ UNCHANGED invoices
            /\ Return(w, Created("create_payment"))
    /\ UNCHANGED <<departments, employees, suppliers, purchase_orders, payments, seq, ops>>

\* the second db.commit() fails in the store: the exception propagates, the
\* payment committed at line 521 stays
NoteSettleFailed(i, id) == IF i.id = id THEN [i EXCEPT !.settle_failed = TRUE] ELSE i

create_payment_settle_fails(w) ==
    /\ pc[w] = "create_payment_settle"
    /\ SettleCondition(sess[w].total_paid, sess[w].inv_amount, sess[w].inv_status)
    /\ invoices' = {NoteSettleFailed(i, req[w].invoice_id) : i \in invoices}
    /\ Return(w, ServerError("create_payment"))
    /\ UNCHANGED <<departments, employees, suppliers, purchase_orders, payments, seq, ops>>

delete_payment_get(w) ==
    \E payment_id \in RefIds :
        /\ Accept(w)
        /\ IF Exists(payments, payment_id)
           THEN Goto(w, "delete_payment",
                     [op |-> "delete_payment", id |-> payment_id,
                      invoice_id |-> Row(payments, payment_id).invoice_id])
                /\ UNCHANGED sess
           ELSE Return(w, NotFound("delete_payment"))
        /\ UNCHANGED <<tables, seq>>

NotePayDeleted(i, id) == IF i.id = id THEN [i EXCEPT !.pay_deleted = TRUE] ELSE i

delete_payment_commit(w) ==
    /\ pc[w] = "delete_payment"
    /\ payments' = {p \in payments : p.id # req[w].id}
    /\ invoices' = IF Exists(payments, req[w].id)
                   THEN {NotePayDeleted(i, req[w].invoice_id) : i \in invoices}
                   ELSE invoices
    /\ Return(w, NoContent("delete_payment"))
    /\ UNCHANGED <<departments, employees, suppliers, purchase_orders, seq, ops>>

\* ---------------------------------------------------------------- Next
Handler(w) ==
    \/ create_department(w)
    \/ delete_department_get(w)
    \/ delete_department_commit(w)
    \/ create_employee_check(w)
    \/ create_employee_commit(w)
    \/ delete_employee_get(w)
    \/ delete_employee_commit(w)
    \/ create_supplier(w)
    \/ delete_supplier_get(w)
    \/ delete_supplier_commit(w)
    \/ create_po_supplier(w)
    \/ create_po_requested_by(w)
    \/ create_po_department(w)
    \/ create_po_commit(w)
    \/ delete_po_get(w)
    \/ delete_po_commit(w)
    \/ create_invoice_supplier(w)
    \/ create_invoice_po(w)
    \/ create_invoice_commit(w)
    \/ delete_invoice_get(w)
    \/ delete_invoice_commit(w)
    \/ create_payment_get(w)
    \/ create_payment_commit(w)
    \/ create_payment_refresh(w)
    \/ create_payment_load(w)
    \/ create_payment_sum(w)
    \/ create_payment_settle(w)
    \/ create_payment_settle_fails(w)
    \/ delete_payment_get(w)
    \/ delete_payment_commit(w)

\* requests of different workers interleave statement by statement
Next == \E w \in Procs : Handler(w)

Spec == Init /\ [][Next]_vars

\* requests served one after another: a worker steps only while the others are idle
Alone(w) == \A v \in Procs \ {w} : pc[v] = "idle"

SeqNext == \E w \in Procs : Alone(w) /\ Handler(w)

SeqSpec == Init /\ [][SeqNext]_vars

\* ------------------------------------------------------- list handlers
\* ORDER BY id
RECURSIVE SortById(_)
SortById(rows) ==
    IF rows = {} THEN <<>>
    ELSE LET r == CHOOSE x \in rows : \A y \in rows : x.id <= y.id
         IN <<r>> \o SortById(rows \ {r})

\* OFFSET :offset LIMIT :limit
Page(sorted, offset, limit) ==
    SubSeq(sorted, offset + 1,
           IF offset + limit < Len(sorted) THEN offset + limit ELSE Len(sorted))

\* "if x is not None"
IsNotNone(f) == f # <<>>
\* "if status": None and the empty string are both false
Truthy(f) == f # <<>> /\ f[1] # ""

\* 422 Unprocessable Entity of the Query(...) validation
ValidationError(op) == Response(op, 422, "validation", "")

ListResponse(op, query, rows) ==
    [op |-> op, code |-> 200, kind |-> "ok", detail |-> "", query |-> query,
     rows |-> rows]

\* q.order_by(id).offset(offset).limit(limit).all() over the rows the filters kept
List(w, op, query, rows) ==
    /\ Accept(w)
    /\ resp' = IF query.limit \in 1..MaxLimit /\ query.offset >= 0
               THEN ListResponse(op, query,
                                 Page(SortById(rows), query.offset, query.limit))
               ELSE ValidationError(op)
    /\ UNCHANGED <<tables, seq, pc, req, sess>>

list_departments(w) ==
    \E limit \in Limits, offset \in Offsets :
        List(w, "list_departments", [limit |-> limit, offset |-> offset], departments)

list_employees(w) ==
    \E limit \in Limits, offset \in Offsets,
       department_id \in Optional(RefIds), active \in Optional(BOOLEAN) :
        List(w, "list_employees",
             [limit |-> limit, offset |-> offset,
              department_id |-> department_id, active |-> active],
             {e \in employees :
                 /\ IsNotNone(department_id) => e.department_id = department_id[1]
                 /\ IsNotNone(active) => e.active = active[1]})

list_suppliers(w) ==
    \E limit \in Limits, offset \in Offsets :
        List(w, "list_suppliers", [limit |-> limit, offset |-> offset], suppliers)

list_pos(w) ==
    \E limit \in Limits, offset \in Offsets, status \in StatusFilters :
        List(w, "list_pos",
             [limit |-> limit, offset |-> offset, status |-> status],
             {po \in purchase_orders : Truthy(status) => po.status = status[1]})

list_invoices(w) ==
    \E limit \in Limits, offset \in Offsets, status \in StatusFilters,
       supplier_id \in Optional(RefIds) :
        List(w, "list_invoices",
             [limit |-> limit, offset |-> offset, status |-> status,
              supplier_id |-> supplier_id],
             {i \in invoices :
                 /\ Truthy(status) => i.status = status[1]
                 /\ IsNotNone(supplier_id) => i.supplier_id = supplier_id[1]})

list_payments(w) ==
    \E limit \in Limits, offset \in Offsets, invoice_id \in Optional(RefIds) :
        List(w, "list_payments",
             [limit |-> limit, offset |-> offset, invoice_id |-> invoice_id],
             {p \in payments : IsNotNone(invoice_id) => p.invoice_id = invoice_id[1]})

ListHandler(w) ==
    \/ list_departments(w)
    \/ list_employees(w)
    \/ list_suppliers(w)
    \/ list_pos(w)
    \/ list_invoices(w)
    \/ list_payments(w)

\* the list handlers change no table, so Spec and SeqSpec, which leave them out,
\* reach the same tables; ListSpec serves reads and writes one after another
ListNext == \E w \in Procs : Alone(w) /\ (Handler(w) \/ ListHandler(w))

ListSpec == Init /\ [][ListNext]_vars

\* -------------------------------------------- Tool Gateway (mcp_server.py)
\* A string is the sequence of its lexical pieces: a date, "T", a time of day,
\* "Z", a UTC offset, a blank, or other text.
ValidDates == {"2024-01-15"}
ValidTimes == {"10:30:00"}

\* date arguments a caller passes: plain dates, datetimes, padded, malformed
DateInputs ==
    {<<"2024-01-15">>,
     <<"2024-01-15", "T", "10:30:00">>,
     <<"2024-01-15", "T", "10:30:00", "Z">>,
     <<" ", "2024-01-15", "T", "10:30:00">>,
     <<"2024-01-15", " ", "10:30:00">>,
     <<"2024-02-30">>,
     <<"2024-02-30", "T", "10:30:00">>,
     <<"2024-01-15", "T", "25:61:00">>,
     <<"amanha">>,
     <<>>}

\* value.strip()
RECURSIVE strip(_)
strip(s) ==
    IF s = <<>> THEN s
    ELSE IF Head(s) = " " THEN strip(Tail(s))
    ELSE IF s[Len(s)] = " " THEN strip(SubSeq(s, 1, Len(s) - 1))
    ELSE s

\* s.replace("Z", "+00:00")
replace_Z(s) == [k \in 1..Len(s) |-> IF s[k] = "Z" THEN "+00:00" ELSE s[k]]

\* datetime.fromisoformat(s) returns (does not raise)
datetime_fromisoformat(s) ==
    /\ Len(s) \in {3, 4}
    /\ s[1] \in ValidDates /\ s[2] = "T" /\ s[3] \in ValidTimes
    /\ Len(s) = 4 => s[4] = "+00:00"

\* date.fromisoformat(s) returns (does not raise)
date_fromisoformat(s) == Len(s) = 1 /\ s[1] \in ValidDates

\* _normalize_hired_on(value)
normalize_hired_on(value) ==
    LET s == strip(value) IN
    IF s = <<>> THEN value
    ELSE IF \E k \in 1..Len(s) : s[k] = "T"
         THEN IF datetime_fromisoformat(replace_Z(s)) THEN <<s[1]>> ELSE value
         ELSE IF date_fromisoformat(s) THEN <<s[1]>> ELSE value

\* api_request("POST", path, json=...): what the gateway sends to the API
Forward(tool, path, args, json) ==
    /\ resp' = [op |-> tool, code |-> 0, kind |-> "forward", detail |-> path,
                args |-> args, json |-> json]
    /\ UNCHANGED <<tables, seq, pc, req, sess, ops>>

tool_create_employee ==
    \E hired_on \in DateInputs :
        Forward("tool_create_employee", "/employees", [hired_on |-> hired_on],
                [hired_on |-> normalize_hired_on(hired_on)])

tool_create_invoice ==
    \E issued_on \in DateInputs, due_on \in DateInputs :
        Forward("tool_create_invoice", "/invoices",
                [issued_on |-> issued_on, due_on |-> due_on],
                [issued_on |-> issued_on, due_on |-> due_on])

tool_create_payment ==
    \E paid_on \in DateInputs :
        Forward("tool_create_payment", "/payments", [paid_on |-> paid_on],
                [paid_on |-> paid_on])

ToolNext == tool_create_employee \/ tool_create_invoice \/ tool_create_payment

ToolSpec == Init /\ [][ToolNext]_vars

\* ================================================================ claims
Quiescent == \A w \in Procs : pc[w] = "idle"

PaymentsOf(id) == {p \in payments : p.invoice_id = id}

\* ------------------------------------------------------------------ C1
\* C1 (as stated): once the operations have completed, every invoice whose
\* status is PAID has payments summing to at least its amount_cents.
C1_PaidImpliesSettled ==
    Quiescent =>
        \A i \in invoices : i.status = "PAID" => TotalPaid(i.id) >= i.amount_cents

\* C1 (amended): every PAID invoice that was not created PAID and has had no
\* payment deleted has payments summing to at least its amount_cents.
C1_SettledUnlessCreatedPaidOrPaymentDeleted ==
    \A i \in invoices :
        (i.status = "PAID" /\ i.created_status # "PAID" /\ ~i.pay_deleted)
            => TotalPaid(i.id) >= i.amount_cents

C1_Witness ==
    /\ Quiescent
    /\ \E i \in invoices :
          /\ i.created_status = "OPEN" /\ i.status = "PAID" /\ ~i.pay_deleted
          /\ i.amount_cents > 0
          /\ TotalPaid(i.id) >= i.amount_cents

\* ------------------------------------------------------------------ C2
\* C2: with payments made one after another against an invoice created OPEN
\* (none deleted, no failed status write), after each payment the status is
\* PAID exactly when the payments so far sum to at least amount_cents.
C2_PaidExactlyWhenSumReached ==
    Quiescent =>
        \A i \in invoices :
            (i.created_status = "OPEN" /\ ~i.pay_deleted /\ ~i.settle_failed
             /\ PaymentsOf(i.id) # {})
                => (i.status = "PAID" <=> TotalPaid(i.id) >= i.amount_cents)

\* two payments, each below the amount, the second reaching it
C2_Witness ==
    /\ Quiescent
    /\ \E i \in invoices :
          /\ i.created_status = "OPEN" /\ i.status = "PAID"
          /\ ~i.pay_deleted /\ ~i.settle_failed
          /\ Cardinality(PaymentsOf(i.id)) = 2
          /\ \A p \in PaymentsOf(i.id) : p.amount_cents < i.amount_cents
          /\ TotalPaid(i.id) >= i.amount_cents

\* ------------------------------------------------------------------ C3
\* C3: when create_payment calls against one invoice created OPEN interleave
\* statement by statement, then once all calls have completed (none failed, no
\* payment deleted) an invoice whose payments reach amount_cents is PAID.
C3_ConcurrentPaymentsSettle ==
    Quiescent =>
        \A i \in invoices :
            (i.created_status = "OPEN" /\ ~i.pay_deleted /\ ~i.settle_failed
             /\ PaymentsOf(i.id) # {} /\ TotalPaid(i.id) >= i.amount_cents)
                => i.status = "PAID"

\* two calls in flight on one OPEN invoice, both payments committed: one call
\* read a sum below the amount, the other read the joint sum and has yet to write
C3_Witness ==
    \E i \in invoices, w \in Procs, v \in Procs :
        /\ w # v
        /\ i.created_status = "OPEN" /\ i.status = "OPEN"
        /\ pc[w] = "create_payment_settle" /\ req[w].invoice_id = i.id
        /\ pc[v] = "create_payment_settle" /\ req[v].invoice_id = i.id
        /\ sess[w].total_paid < i.amount_cents
        /\ sess[v].total_paid >= i.amount_cents
        /\ Row(payments, sess[v].obj).amount_cents < i.amount_cents

\* ------------------------------------------------------------------ C4
SameInvoice(i, j) == i.id = j.id

\* C4 (as stated): the only status change is OPEN to PAID.
C4_OnlyOpenToPaid ==
    [][\A i \in invoices : \A j \in invoices' :
          (SameInvoice(i, j) /\ j.status # i.status)
              => (i.status = "OPEN" /\ j.status = "PAID")]_vars

\* C4 (amended): the only value create_payment writes is PAID, and it writes it
\* to an invoice of any other status (OPEN, CANCELLED, OVERDUE) only when the
\* payments sum to at least amount_cents; otherwise the status is untouched.
C4_OnlyToPaidWhenSumReached ==
    [][\A i \in invoices : \A j \in invoices' :
          (SameInvoice(i, j) /\ j.status # i.status)
              => /\ j.status = "PAID"
                 /\ TotalPaid(i.id) >= i.amount_cents
                 /\ \E w \in Procs : /\ pc[w] = "create_payment_settle"
                                     /\ req[w].invoice_id = i.id]_vars

\* an invoice created CANCELLED or OVERDUE that a payment has turned PAID
C4_Witness ==
    \E i \in invoices :
        /\ i.created_status \in {"CANCELLED", "OVERDUE"}
        /\ i.status = "PAID"
        /\ resp = Created("create_payment")

\* ------------------------------------------------------------------ C5
\* C5: a payment against a PAID invoice is recorded and answered 201, and no
\* step moves an existing invoice's status away from PAID.
C5_PaidStaysPaid ==
    [][/\ \A i \in invoices : \A j \in invoices' :
             (SameInvoice(i, j) /\ i.status = "PAID") => j.status = "PAID"
       /\ \A w \in Procs :
             (/\ pc[w] = "create_payment" /\ pc'[w] # pc[w]
              /\ Exists(invoices, req[w].invoice_id)
              /\ Row(invoices, req[w].invoice_id).status = "PAID")
                 => /\ pc'[w] = "create_payment_refresh"
                    /\ \E p \in payments' :
                          p \notin payments /\ p.invoice_id = req[w].invoice_id
       /\ \A w \in Procs :
             (/\ pc[w] = "create_payment_settle" /\ pc'[w] # pc[w]
              /\ sess[w].inv_status = "PAID")
                 => (resp' = Created("create_payment") /\ invoices' = invoices)]_vars

\* an overpaid invoice: PAID, and the payment beyond the amount was accepted
C5_Witness ==
    /\ resp = Created("create_payment")
    /\ \E i \in invoices :
          /\ i.status = "PAID" /\ i.created_status = "PAID"
          /\ Cardinality(PaymentsOf(i.id)) = 2
          /\ TotalPaid(i.id) > i.amount_cents

\* ------------------------------------------------------------------ C6
AfterPaymentCommit ==
    {"create_payment_refresh", "create_payment_load", "create_payment_sum",
     "create_payment_settle"}

\* C6 (as stated): no state shows a call's payment committed while the status
\* change that payment triggers has not been applied.
C6_InsertAndSettleInOneTransaction ==
    \A w \in Procs :
        pc[w] \in AfterPaymentCommit =>
            ~(/\ Exists(payments, sess[w].obj)
              /\ Exists(invoices, req[w].invoice_id)
              /\ SettleCondition(TotalPaid(req[w].invoice_id),
                                 Row(invoices, req[w].invoice_id).amount_cents,
                                 Row(invoices, req[w].invoice_id).status))

\* C6 (amended): the payment insert commits on its own, changing no invoice,
\* and the status write commits later, changing no payment; in between the
\* payment is visible with the status not yet changed.
C6_InsertCommitsBeforeSettle ==
    [][/\ (\E p \in payments' : p \notin payments) => invoices' = invoices
       /\ (\E i \in invoices : \E j \in invoices' :
              SameInvoice(i, j) /\ j.status # i.status) => payments' = payments]_vars

\* a call has committed a payment that reaches the amount, has not written the
\* status yet, and the invoice reads OPEN
C6_Witness ==
    \E w \in Procs :
        /\ pc[w] \in AfterPaymentCommit
        /\ Exists(payments, sess[w].obj)
        /\ Exists(invoices, req[w].invoice_id)
        /\ Row(invoices, req[w].invoice_id).status = "OPEN"
        /\ TotalPaid(req[w].invoice_id) >= Row(invoices, req[w].invoice_id).amount_cents
        /\ Row(invoices, req[w].invoice_id).amount_cents > 0

\* ------------------------------------------------------------------ C7
\* C7: when the status write of create_payment fails, the payment stays and the
\* status is unchanged; a create_payment that then succeeds leaves the invoice
\* PAID when all recorded payments, the earlier one included, reach amount_cents.
C7_StaleStatusRecomputedByNextPayment ==
    [][\A w \in Procs :
          (/\ pc[w] = "create_payment_settle" /\ pc'[w] = "idle"
           /\ Exists(invoices, req[w].invoice_id))
              => /\ payments' = payments
                 /\ Exists(payments, sess[w].obj)
                 /\ Exists(invoices', req[w].invoice_id)
                 /\ resp' = ServerError("create_payment")
                       => Row(invoices', req[w].invoice_id).status
                             = Row(invoices, req[w].invoice_id).status
                 /\ (/\ resp' = Created("create_payment")
                     /\ TotalPaid(req[w].invoice_id)
                           >= Row(invoices, req[w].invoice_id).amount_cents)
                       => Row(invoices', req[w].invoice_id).status = "PAID"]_vars

\* a status write failed earlier; a later payment, alone below the amount, has
\* settled the invoice
C7_Witness ==
    /\ Quiescent
    /\ resp = Created("create_payment")
    /\ \E i \in invoices :
          /\ i.settle_failed /\ i.created_status = "OPEN" /\ i.status = "PAID"
          /\ \E p \in PaymentsOf(i.id) :
                /\ \A q \in PaymentsOf(i.id) : q.id <= p.id
                /\ p.amount_cents < i.amount_cents

\* ------------------------------------------------------------------ C8
\* the foreign keys a handler has checked so far, at the statement it is at
CheckedKeysResolve(w) ==
    CASE pc[w] = "create_employee" -> Exists(departments, req[w].department_id)
      [] pc[w] = "create_po_requested_by" -> Exists(suppliers, req[w].supplier_id)
      [] pc[w] = "create_po_department" ->
            /\ Exists(suppliers, req[w].supplier_id)
            /\ Exists(employees, req[w].requested_by)
      [] pc[w] = "create_po" -> POForeignKeysHold(req[w])
      [] pc[w] = "create_invoice_po" -> Exists(suppliers, req[w].supplier_id)
      [] pc[w] = "create_invoice" -> InvoiceForeignKeysHold(req[w])
      [] pc[w] = "create_payment" -> Exists(invoices, req[w].invoice_id)
      [] OTHER -> TRUE

CreatesWithForeignKeys ==
    {"create_employee", "create_po", "create_invoice", "create_payment"}

\* C8: a create never gets past the check of a foreign key that does not
\* resolve: the check answers 400 naming the key, and no table changes.
C8_UnresolvedKeyIsRejected ==
    [][/\ \A w \in Procs :
             (pc'[w] # pc[w] /\ pc'[w] # "idle") => CheckedKeysResolve(w)'
       /\ (ops' = ops + 1 /\ resp' # NoResp /\ resp'.op \in CreatesWithForeignKeys)
             => /\ resp'.code = 400 /\ resp'.kind = "reference"
                /\ tables' = tables /\ seq' = seq
       /\ \A w \in Procs :
             (/\ pc[w] \in {"create_po_requested_by", "create_po_department",
                            "create_invoice_po"}
              /\ pc'[w] = "idle")
                 => /\ resp'.code = 400 /\ resp'.kind = "reference"
                    /\ tables' = tables /\ seq' = seq
       /\ resp'.kind = "reference" => tables' = tables]_vars

\* a purchase order naming an employee that does not exist was rejected
C8_Witness ==
    /\ resp = ReferenceError("create_po", "requested_by")
    /\ Quiescent
    /\ suppliers # {}

\* ------------------------------------------------------------------ C9
UniqueKeys ==
    /\ \A a \in departments : \A b \in departments :
          a # b => (a.id # b.id /\ a.name # b.name /\ a.cost_center # b.cost_center)
    /\ \A a \in employees : \A b \in employees :
          a # b => (a.id # b.id /\ a.email # b.email)
    /\ \A a \in suppliers : \A b \in suppliers :
          a # b => (a.id # b.id /\ a.name # b.name /\ a.tax_id # b.tax_id)
    /\ \A a \in invoices : \A b \in invoices :
          a # b => /\ a.id # b.id
                   /\ ~(a.supplier_id = b.supplier_id /\ a.invoice_no = b.invoice_no)

CreatesWithUniqueKeys ==
    {"create_department", "create_employee", "create_supplier", "create_invoice"}

\* C9: no two rows of a table share a unique key; a create that is refused as
\* a conflict answers 400 and changes no table, and a create that succeeds
\* keeps every stored row.
C9_DuplicateKeyIsConflict ==
    /\ []UniqueKeys
    /\ [][(resp' # NoResp /\ resp'.op \in CreatesWithUniqueKeys)
             => /\ resp'.kind \in {"ok", "conflict", "reference"}
                /\ resp'.kind = "conflict" => (resp'.code = 400 /\ tables' = tables)
                /\ resp'.kind = "ok"
                      => /\ departments \subseteq departments'
                         /\ employees \subseteq employees'
                         /\ suppliers \subseteq suppliers'
                         /\ invoices \subseteq invoices']_vars

\* a second employee with a stored email was refused; the stored rows remain
C9_Witness ==
    /\ resp = ConflictError("create_employee")
    /\ Cardinality(employees) = 2
    /\ \E e \in employees : e.email \in Emails

\* ----------------------------------------------------------------- C10
\* C10: the delete of a department, employee or supplier that another row
\* references is answered with the conflict error kind and changes no table.
C10_InUseDeleteIsConflict ==
    [][\A w \in Procs :
          (/\ \/ pc[w] = "delete_department" /\ DepartmentInUse(req[w].id)
              \/ pc[w] = "delete_employee" /\ EmployeeInUse(req[w].id)
              \/ pc[w] = "delete_supplier" /\ SupplierInUse(req[w].id)
           /\ pc'[w] = "idle")
              => (resp'.kind = "conflict" /\ tables' = tables)]_vars

\* ----------------------------------------------------------------- C11
\* the fields of an invoice that delete_po has no business with
SameButPO(i, j) ==
    /\ j.id = i.id /\ j.supplier_id = i.supplier_id /\ j.invoice_no = i.invoice_no
    /\ j.amount_cents = i.amount_cents /\ j.status = i.status

\* C11: the delete of a purchase order succeeds also when invoices reference
\* it; each of those invoices stays, with po_id absent and its other fields and
\* its payments unchanged, and the invoices of other purchase orders are as
\* they were.
C11_DeletePODetachesInvoices ==
    [][\A w \in Procs :
          (pc[w] = "delete_po" /\ pc'[w] = "idle")
              => /\ resp' = NoContent("delete_po")
                 /\ ~Exists(purchase_orders', req[w].id)
                 /\ payments' = payments
                 /\ Cardinality(invoices') = Cardinality(invoices)
                 /\ \A i \in invoices : \E j \in invoices' :
                       /\ SameButPO(i, j)
                       /\ j.po_id = IF i.po_id = req[w].id THEN NULL ELSE i.po_id]_vars

\* the purchase order of a paid invoice was deleted: the invoice and its payment
\* are there, detached, next to an invoice that still has its purchase order
C11_Witness ==
    /\ resp = NoContent("delete_po")
    /\ \E i \in invoices : \E j \in invoices :
          /\ i.po_id = NULL /\ PaymentsOf(i.id) # {}
          /\ j.po_id # NULL /\ Exists(purchase_orders, j.po_id)

\* ----------------------------------------------------------------- C12
\* C12: the delete of an invoice removes the payments of that invoice and no
\* other payment; no payment ever references an invoice that is not there.
C12_DeleteInvoiceRemovesItsPayments ==
    /\ [](\A p \in payments : Exists(invoices, p.invoice_id))
    /\ [][\A w \in Procs :
             (pc[w] = "delete_invoice" /\ pc'[w] = "idle")
                 => /\ resp' = NoContent("delete_invoice")
                    /\ ~Exists(invoices', req[w].id)
                    /\ payments' = {p \in payments : p.invoice_id # req[w].id}
                    /\ \A i \in invoices : i.id # req[w].id => i \in invoices']_vars

\* an invoice with a payment was deleted and its payment went with it, while the
\* payment of another invoice is still there
C12_Witness ==
    /\ resp = NoContent("delete_invoice")
    /\ payments # {}
    /\ Cardinality(payments) < seq["payments"]
    /\ Cardinality(invoices) < seq["invoices"]

\* ----------------------------------------------------------------- C13
ListOps ==
    {"list_departments", "list_employees", "list_suppliers", "list_pos",
     "list_invoices", "list_payments"}

\* a filter is supplied when the request carries it, whatever its value
Supplied(f) == f # <<>>

\* the rows of the listed table that match every supplied filter exactly
Matching(op, q) ==
    CASE op = "list_departments" -> departments
      [] op = "list_employees" ->
            {e \in employees :
                /\ Supplied(q.department_id) => e.department_id = q.department_id[1]
                /\ Supplied(q.active) => e.active = q.active[1]}
      [] op = "list_suppliers" -> suppliers
      [] op = "list_pos" ->
            {po \in purchase_orders : Supplied(q.status) => po.status = q.status[1]}
      [] op = "list_invoices" ->
            {i \in invoices :
                /\ Supplied(q.status) => i.status = q.status[1]
                /\ Supplied(q.supplier_id) => i.supplier_id = q.supplier_id[1]}
      [] op = "list_payments" ->
            {p \in payments : Supplied(q.invoice_id) => p.invoice_id = q.invoice_id[1]}

\* rows is the slice [offset, offset + limit) of the id-sorted set matching
IsSlice(rows, matching, offset, limit) ==
    /\ Len(rows) <= limit
    /\ \A k \in 1..(Len(rows) - 1) : rows[k].id < rows[k + 1].id
    /\ \A k \in 1..Len(rows) :
          /\ rows[k] \in matching
          /\ Cardinality({m \in matching : m.id < rows[k].id}) = offset + k - 1
    /\ \/ Len(rows) = limit
       \/ Len(rows) = Cardinality(matching) - offset
       \/ Len(rows) = 0 /\ Cardinality(matching) <= offset

\* C13: a list answered 200 had limit in [1,200] and offset >= 0 and returns at
\* most limit rows, in strictly ascending id order: the slice
\* [offset, offset + limit) of the id-sorted rows that match every supplied
\* filter exactly (so equal calls on equal tables return equal sequences).
C13_ListIsFilteredSlice ==
    (resp.op \in ListOps /\ resp.code = 200)
        => /\ resp.query.limit \in 1..MaxLimit /\ resp.query.offset >= 0
           /\ IsSlice(resp.rows, Matching(resp.op, resp.query),
                      resp.query.offset, resp.query.limit)

\* ----------------------------------------------------------------- C14
\* every foreign key of every committed row resolves
ForeignKeysResolve ==
    /\ \A e \in employees : Exists(departments, e.department_id)
    /\ \A po \in purchase_orders : POForeignKeysHold(po)
    /\ \A i \in invoices : InvoiceForeignKeysHold(i)
    /\ \A p \in payments : Exists(invoices, p.invoice_id)

\* the statements at which a create runs its INSERT
InsertStatements == {"create_employee", "create_po", "create_invoice", "create_payment"}

WellFormedWithTime(s) ==
    /\ Len(s) \in {3, 4}
    /\ s[1] \in ValidDates /\ s[2] = "T" /\ s[3] \in ValidTimes
    /\ Len(s) = 4 => s[4] = "Z"

\* no date can be read from the string
Malformed(s) ==
    \/ \A k \in 1..Len(s) : s[k] \notin ValidDates
    \/ \E k \in 1..Len(s) : s[k] = "T" /\ (k = Len(s) \/ s[k + 1] \notin ValidTimes)

DateArguments == {"hired_on", "issued_on", "due_on", "paid_on"}

\* C15: every date argument of every create tool is forwarded as its
\* calendar-date portion when it is a well-formed date with a time component,
\* and unchanged when it is malformed.
C15_DatesNormalised ==
    resp.kind = "forward" =>
        \A a \in DateArguments \cap DOMAIN resp.args :
            /\ WellFormedWithTime(resp.args[a]) => resp.json[a] = <<resp.args[a][1]>>
            /\ Malformed(resp.args[a]) => resp.json[a] = resp.args[a]

\* ----------------------------------------------------------------- C16
\* the fields of an invoice that no handler writes after the INSERT
SameFixedFields(i, j) ==
    /\ j.supplier_id = i.supplier_id /\ j.invoice_no = i.invoice_no
    /\ j.issued_on = i.issued_on /\ j.due_on = i.due_on
    /\ j.amount_cents = i.amount_cents

\* a status is changed by the settlement step of a create_payment on the invoice
StatusChangeIsSettlement(i, j) ==
    j.status # i.status =>
        \E w \in Procs : /\ pc[w] = "create_payment_settle" /\ pc'[w] = "idle"
                         /\ req[w].invoice_id = i.id

\* C16 (as stated): no step changes a field of an existing invoice, except the
\* settlement step, which changes only status.
C16_InvoiceFieldsFrozen ==
    [][\A i \in invoices : \A j \in invoices' :
          SameInvoice(i, j)
              => /\ SameFixedFields(i, j)
                 /\ j.po_id = i.po_id
                 /\ StatusChangeIsSettlement(i, j)]_vars

\* C16 (amended): no step changes supplier_id, invoice_no, issued_on, due_on or
\* amount_cents of an existing invoice; status is changed only by the
\* settlement step, and po_id only by the delete of the purchase order it
\* names, which makes it absent.
C16_FrozenButStatusAndDetachedPO ==
    [][\A i \in invoices : \A j \in invoices' :
          SameInvoice(i, j)
              => /\ SameFixedFields(i, j)
                 /\ StatusChangeIsSettlement(i, j)
                 /\ j.po_id # i.po_id
                       => /\ j.po_id = NULL
                          /\ \E w \in Procs :
                                /\ pc[w] = "delete_po" /\ pc'[w] = "idle"
                                /\ req[w].id = i.po_id]_vars

\* an invoice detached by the delete of its purchase order and then settled by a
\* payment: po_id and status have changed, the amount is what it was
C16_Witness ==
    /\ resp = Created("create_payment")
    /\ Cardinality(purchase_orders) < seq["purchase_orders"]
    /\ \E i \in invoices :
          /\ i.po_id = NULL /\ i.created_status = "OPEN" /\ i.status = "PAID"
          /\ i.amount_cents > 0

\* ----------------------------------------------------------------- C17
\* no create_payment is between its db.get and its return
NoPaymentInProgress ==
    \A w \in Procs : pc[w] \notin {"create_payment"} \cup AfterPaymentCommit

\* C17 (as stated): while no create_payment is in progress, every OPEN invoice
\* none of whose status writes failed has payments summing to strictly less
\* than its amount_cents.
C17_OpenImpliesUnderpaid ==
    NoPaymentInProgress =>
        \A i \in invoices :
            (i.status = "OPEN" /\ ~i.settle_failed) => TotalPaid(i.id) < i.amount_cents

\* C17 (amended): the same, except for an invoice with amount_cents = 0 that
\* has no payment: it stays OPEN, its sum 0 equal to its amount, until its
\* first payment.
C17_OpenImpliesUnderpaidUnlessZeroAndUnpaid ==
    NoPaymentInProgress =>
        \A i \in invoices :
            (/\ i.status = "OPEN" /\ ~i.settle_failed
             /\ ~(i.amount_cents = 0 /\ PaymentsOf(i.id) = {}))
                => TotalPaid(i.id) < i.amount_cents

\* a payment below the amount was recorded and the invoice is still OPEN
C17_Witness ==
    /\ NoPaymentInProgress
    /\ resp = Created("create_payment")
    /\ \E i \in invoices :
          /\ i.status = "OPEN" /\ ~i.settle_failed
          /\ PaymentsOf(i.id) # {}
          /\ TotalPaid(i.id) < i.amount_cents

====
